---- MODULE Spec2Model ----
(***************************************************************************)
(* A model of oflog.py: a Dash dashboard over one table (df) loaded from   *)
(* adult_social_care.csv.  The callbacks update_table,                     *)
(* update_local_authority_info, update_comparison_chart, display_page and  *)
(* update_regional_bar_chart are modelled as operators over the table; the *)
(* actions are the user interactions that make Dash invoke them.           *)
(*                                                                         *)
(* Cells of the string columns are strings, NaN standing for a missing     *)
(* cell.  A cell of the Value column is its CSV text, a tuple of           *)
(* characters, the empty tuple being the empty (missing) cell.  A value    *)
(* coerced by pd.to_numeric is <<n>> or, for NaN, <<>>.                    *)
(* A value arriving from a control is a record [t, v]: Python None, a      *)
(* string, a float NaN, or a list of strings.                              *)
(***************************************************************************)
EXTENDS Integers, Sequences, FiniteSets, TLC

VARIABLES
  df,                  \* the table read from the CSV file (line 9)
  loaded,              \* history: the table as pd.read_csv returned it
  url_pathname,        \* pathname of the dcc.Location 'url'; <<>> before a visit
  page_content,        \* children of 'page-content': <<>> or <<layout>>
  table_data,          \* data of the DataTable 'table': <<>> or <<rows>>
  comparison_chart,    \* figure of 'comparison-chart': <<>> or <<figure>>
  regional_bar_chart,  \* figure of 'regional-bar-chart': <<>> or <<figure>>
  last                 \* history: the callback invocations of the last interaction

vars == <<df, loaded, url_pathname, page_content, table_data,
          comparison_chart, regional_bar_chart, last>>

(* ----------------------------- bounds --------------------------------- *)

\* The largest number of rows of a dataset.
MaxRows == 2

(* ----------------------------- values --------------------------------- *)

NaN == "NaN"

PyNone == [t |-> "None", v |-> <<>>]
PyNaN == [t |-> "float", v |-> <<>>]
Str(s) == [t |-> "str", v |-> <<s>>]
List(l) == [t |-> "list", v |-> l]

\* Python truthiness of a control value: `not x`.
Falsy(x) ==
  \/ x.t = "None"
  \/ x.t = "str" /\ x.v = <<"">>
  \/ x.t = "list" /\ x.v = <<>>

\* The text an f-string puts for a control value.
Format(x) ==
  CASE x.t = "str" -> x.v[1]
    [] x.t = "None" -> "None"
    [] x.t = "float" -> "nan"
    [] OTHER -> "list"

(* ----------------------------- dataset -------------------------------- *)

Row(r, la, m, fy, val) ==
  [Region |-> r, Local_authority_name |-> la, Measure |-> m,
   Financial_year |-> fy, Value |-> val]

\* The rows a dataset is drawn from.
Pool ==
  { Row("North", "Leeds", "Spend", "2019-20", <<"1", "0", "0">>),
    Row("North", "Leeds", "Spend", "2019-20", <<"b", "a", "d">>),
    Row("North", "Leeds", "Spend", "2019-20", <<"5", "0">>),
    Row("South", "York", "Spend", "2020-21", <<"7">>),
    Row(NaN, "York", "Spend", "2019-20", <<>>),
    Row("South", "York", "Cost", NaN, <<"2", "0">>) }

\* The datasets pd.read_csv can have loaded: at least one row.
Datasets == UNION { [1..n -> Pool] : n \in 1..MaxRows }

\* Python's ordering of the Region strings of the pool.
SortedRegions == <<"North", "South">>

(* ----------------------------- pandas --------------------------------- *)

Digits == <<"0", "1", "2", "3", "4", "5", "6", "7", "8", "9">>

IsDigit(c) == \E i \in 1..Len(Digits) : Digits[i] = c

DigitVal(c) == (CHOOSE i \in 1..Len(Digits) : Digits[i] = c) - 1

RECURSIVE ParseInt(_)
ParseInt(s) ==
  IF s = <<>> THEN 0
  ELSE 10 * ParseInt(SubSeq(s, 1, Len(s) - 1)) + DigitVal(s[Len(s)])

\* A variant of to_numeric that turns text it cannot parse into 0.
to_numeric_zero(cell) ==
  IF cell = <<>> THEN <<>>
  ELSE IF \A i \in 1..Len(cell) : IsDigit(cell[i])
       THEN <<ParseInt(cell)>>
       ELSE <<0>>

\* pd.to_numeric(cell, errors='coerce') of one cell of CSV text.
to_numeric(cell) ==
  IF cell # <<>> /\ \A i \in 1..Len(cell) : IsDigit(cell[i])
  THEN <<ParseInt(cell)>>
  ELSE <<>>

\* A variant of CellEq in which a missing cell equals a NaN control value.
CellEqNaN(cell, x) ==
  \/ x.t = "str" /\ cell # NaN /\ cell = x.v[1]
  \/ x.t = "float" /\ cell = NaN

\* Elementwise ==  of a cell with a scalar control value: NaN equals nothing.
CellEq(cell, x) == x.t = "str" /\ cell # NaN /\ cell = x.v[1]

\* Series == x.  A list is compared elementwise and must have the length
\* of the Series; the result is [ok, mask].
SeriesEq(col, x) ==
  IF x.t = "list"
  THEN IF Len(x.v) # Len(col)
       THEN [ok |-> FALSE, mask |-> <<>>]
       ELSE [ok |-> TRUE,
             mask |-> [i \in 1..Len(col) |-> col[i] # NaN /\ col[i] = x.v[i]]]
  ELSE [ok |-> TRUE, mask |-> [i \in 1..Len(col) |-> CellEq(col[i], x)]]

\* Series.isin(list).
isin(cell, l) == \E i \in 1..Len(l) : l[i] = cell

Column(d, name) == [i \in 1..Len(d) |-> d[i][name]]

RECURSIVE SelectIdx(_, _, _)
SelectIdx(d, mask, i) ==
  IF i > Len(d) THEN <<>>
  ELSE (IF mask[i] THEN <<d[i]>> ELSE <<>>) \o SelectIdx(d, mask, i + 1)

\* d[mask]: the rows of d the boolean mask keeps, in row order, as a copy.
BoolIndex(d, mask) == SelectIdx(d, mask, 1)

\* filtered_df['Value'] = pd.to_numeric(filtered_df['Value'], errors='coerce')
CoerceValue(d) == [i \in 1..Len(d) |-> [d[i] EXCEPT !.Value = to_numeric(@)]]

\* A variant of dropna with subset=['Value'] alone.
dropna_value_only(d) == SelectSeq(d, LAMBDA r : r.Value # <<>>)

\* filtered_df.dropna(subset=['Value', 'Financial year'], inplace=True)
dropna(d) == SelectSeq(d, LAMBDA r : r.Value # <<>> /\ r.Financial_year # NaN)

RECURSIVE SumSeq(_)
SumSeq(s) == IF s = <<>> THEN 0 ELSE s[1][1] + SumSeq(Tail(s))

RECURSIVE Gcd(_, _)
Gcd(a, b) == IF b = 0 THEN a ELSE Gcd(b, a % b)

\* A variant of Mean that counts the NaN entries in the denominator.
MeanCountingNaN(vals) ==
  LET nums == SelectSeq(vals, LAMBDA v : v # <<>>)
      s == SumSeq(nums)
      n == Len(vals)
      g == Gcd(s, n)
  IN IF Len(nums) = 0 THEN <<>> ELSE <<s \div g, n \div g>>

\* Series.mean(): NaN is skipped; the mean of no number is NaN.  The
\* quotient sum / count is kept as the reduced fraction <<num, den>>.
Mean(vals) ==
  LET nums == SelectSeq(vals, LAMBDA v : v # <<>>)
      s == SumSeq(nums)
      n == Len(nums)
      g == Gcd(s, n)
  IN IF n = 0 THEN <<>> ELSE <<s \div g, n \div g>>

\* A variant of GroupKeys that makes a group of every region, with or
\* without rows.
GroupKeysAll(d) == SortedRegions

\* The group keys of groupby('Region'): the Region values present, sorted;
\* rows whose key is NaN belong to no group.
GroupKeys(d) ==
  SelectSeq(SortedRegions,
            LAMBDA k : \E i \in 1..Len(d) : d[i].Region # NaN /\ d[i].Region = k)

\* d.groupby('Region')['Value'].mean().reset_index()
GroupMean(d) ==
  LET keys == GroupKeys(d)
  IN [j \in 1..Len(keys) |->
        [Region |-> keys[j],
         Value |-> Mean(Column(SelectSeq(d, LAMBDA r : r.Region = keys[j]),
                               "Value"))]]

(* ----------------------------- callbacks ------------------------------ *)

\* What one invocation of a callback did: it returned out, raised
\* PreventUpdate, or raised an error.
Returned(fn, args, out) ==
  [fn |-> fn, args |-> args, result |-> "return", out |-> <<out>>]
Raised(fn, args, exc) ==
  [fn |-> fn, args |-> args, result |-> exc, out |-> <<>>]

update_table(d, selected_region) ==
  IF selected_region.t = "None"
  THEN Raised("update_table", <<selected_region>>, "PreventUpdate")
  ELSE LET eq == SeriesEq(Column(d, "Region"), selected_region)
       IN IF ~eq.ok
          THEN Raised("update_table", <<selected_region>>, "ValueError")
          ELSE Returned("update_table", <<selected_region>>,
                        BoolIndex(d, eq.mask))

update_local_authority_info(d, selected_local_authority) ==
  IF selected_local_authority.t = "None"
  THEN Raised("update_local_authority_info", <<selected_local_authority>>,
              "PreventUpdate")
  ELSE LET eq == SeriesEq(Column(d, "Local_authority_name"),
                          selected_local_authority)
       IN IF ~eq.ok
          THEN Raised("update_local_authority_info",
                      <<selected_local_authority>>, "ValueError")
          ELSE Returned("update_local_authority_info",
                        <<selected_local_authority>>,
                        [H4 |-> <<"Data for ", selected_local_authority>>,
                         data |-> BoolIndex(d, eq.mask)])

\* Lines 102-109: the table the line chart is drawn from.
ComparisonFrame(d, selected_local_authorities, selected_measure) ==
  LET mask == [i \in 1..Len(d) |->
                 /\ isin(d[i].Local_authority_name, selected_local_authorities.v)
                 /\ CellEq(d[i].Measure, selected_measure)]
  IN dropna(CoerceValue(BoolIndex(d, mask)))

\* A variant of update_comparison_chart whose guard tests `is None`.
update_comparison_chart_is_none(d, selected_local_authorities, selected_measure) ==
  IF selected_local_authorities.t = "None" \/ selected_measure.t = "None"
  THEN Raised("update_comparison_chart",
              <<selected_local_authorities, selected_measure>>, "PreventUpdate")
  ELSE Returned("update_comparison_chart",
                <<selected_local_authorities, selected_measure>>,
                [type |-> "line",
                 frame |-> ComparisonFrame(d, selected_local_authorities,
                                           selected_measure),
                 x |-> "Financial year", y |-> "Value",
                 color |-> "Local authority name",
                 title |-> <<"Comparison of ", Format(selected_measure),
                             " Over Time">>,
                 labels |-> [Value |-> Format(selected_measure)],
                 xaxis_title |-> "Financial Year",
                 yaxis_title |-> Format(selected_measure),
                 xaxis_autorange |-> "reversed"])

update_comparison_chart(d, selected_local_authorities, selected_measure) ==
  IF Falsy(selected_local_authorities) \/ Falsy(selected_measure)
  THEN Raised("update_comparison_chart",
              <<selected_local_authorities, selected_measure>>, "PreventUpdate")
  ELSE Returned("update_comparison_chart",
                <<selected_local_authorities, selected_measure>>,
                [type |-> "line",
                 frame |-> ComparisonFrame(d, selected_local_authorities,
                                           selected_measure),
                 x |-> "Financial year", y |-> "Value",
                 color |-> "Local authority name",
                 title |-> <<"Comparison of ", Format(selected_measure),
                             " Over Time">>,
                 labels |-> [Value |-> Format(selected_measure)],
                 xaxis_title |-> "Financial Year",
                 yaxis_title |-> Format(selected_measure),
                 xaxis_autorange |-> "reversed"])

\* A variant of display_page without the '/regional-analysis' branch.
display_page_two_pages(pathname) ==
  IF pathname = Str("/local-authority")
  THEN Returned("display_page", <<pathname>>, "local_authority_page")
  ELSE Returned("display_page", <<pathname>>, "index_page")

display_page(pathname) ==
  IF pathname = Str("/local-authority")
  THEN Returned("display_page", <<pathname>>, "local_authority_page")
  ELSE IF pathname = Str("/regional-analysis")
       THEN Returned("display_page", <<pathname>>, "regional_analysis_page")
       ELSE Returned("display_page", <<pathname>>, "index_page")

\* Lines 168-174: the table the bar chart is drawn from.
RegionalFrame(d, selected_year, selected_metric) ==
  LET mask == [i \in 1..Len(d) |->
                 /\ CellEq(d[i].Financial_year, selected_year)
                 /\ CellEq(d[i].Measure, selected_metric)]
  IN GroupMean(CoerceValue(BoolIndex(d, mask)))

update_regional_bar_chart(d, selected_year, selected_metric) ==
  IF Falsy(selected_year) \/ Falsy(selected_metric)
  THEN Raised("update_regional_bar_chart",
              <<selected_year, selected_metric>>, "PreventUpdate")
  ELSE Returned("update_regional_bar_chart",
                <<selected_year, selected_metric>>,
                [type |-> "bar",
                 frame |-> RegionalFrame(d, selected_year, selected_metric),
                 x |-> "Region", y |-> "Value",
                 title |-> <<"Average ", Format(selected_metric), " in ",
                             Format(selected_year), " by Region">>])

\* A variant of DfAfterSetValue in which filtered_df is a view of df: the
\* cells the coercion turns into NaN become missing in df.
DfAfterSetValueView(d, selected_year, selected_metric) ==
  [i \in 1..Len(d) |->
     IF /\ CellEq(d[i].Financial_year, selected_year)
        /\ CellEq(d[i].Measure, selected_metric)
        /\ to_numeric(d[i].Value) = <<>>
     THEN [d[i] EXCEPT !.Value = <<>>]
     ELSE d[i]]

\* The table df after update_regional_bar_chart has assigned the coerced
\* Value column to filtered_df: df[mask] is a copy, so df keeps its cells.
DfAfterSetValue(d, selected_year, selected_metric) == d

\* The table df after update_comparison_chart has coerced the Value column
\* of filtered_df and dropped rows from it in place: filtered_df is an
\* explicit .copy().
DfAfterDropna(d, selected_local_authorities, selected_measure) == d

(* ----------------------------- dispatch ------------------------------- *)

\* The callbacks as @app.callback registers them, in the order of the file.
Callbacks ==
  << [fn |-> "update_table", output |-> "table.data",
      inputs |-> {"region-dropdown.value"}],
     [fn |-> "update_local_authority_info",
      output |-> "local-authority-info.children",
      inputs |-> {"local-authority-dropdown.value"}],
     [fn |-> "update_comparison_chart", output |-> "comparison-chart.figure",
      inputs |-> {"local-authority-dropdown.value", "measure-dropdown.value"}],
     [fn |-> "display_page", output |-> "page-content.children",
      inputs |-> {"url.pathname"}],
     [fn |-> "update_regional_bar_chart",
      output |-> "regional-bar-chart.figure",
      inputs |-> {"year-dropdown.value", "metric-dropdown.value"}] >>

\* The callbacks registered on an input property.
Triggered(input) == SelectSeq(Callbacks, LAMBDA cb : input \in cb.inputs)

\* The values of the input properties at an interaction.
Props(pathname, region, authorities, measure, year, metric) ==
  [pathname |-> pathname, region |-> region, authorities |-> authorities,
   measure |-> measure, year |-> year, metric |-> metric]

Invoke(cb, d, props) ==
  CASE cb.fn = "update_table" -> update_table(d, props.region)
    [] cb.fn = "update_local_authority_info" ->
         update_local_authority_info(d, props.authorities)
    [] cb.fn = "update_comparison_chart" ->
         update_comparison_chart(d, props.authorities, props.measure)
    [] cb.fn = "display_page" -> display_page(props.pathname)
    [] cb.fn = "update_regional_bar_chart" ->
         update_regional_bar_chart(d, props.year, props.metric)

\* The property of a component after the calls: the value a callback
\* returned for it, and otherwise the value it had.
Render(prev, calls, fn) ==
  LET hits == SelectSeq(calls, LAMBDA c : c.fn = fn /\ c.result = "return")
  IN IF hits = <<>> THEN prev ELSE hits[1].out

\* The table df after the calls.
RECURSIVE DfAfter(_, _)
DfAfter(d, calls) ==
  IF calls = <<>> THEN d
  ELSE LET c == Head(calls)
           e == IF c.result # "return" THEN d
                ELSE CASE c.fn = "update_regional_bar_chart" ->
                            DfAfterSetValue(d, c.args[1], c.args[2])
                       [] c.fn = "update_comparison_chart" ->
                            DfAfterDropna(d, c.args[1], c.args[2])
                       [] OTHER -> d
       IN DfAfter(e, Tail(calls))

(* ----------------------------- control values ------------------------- *)

RegionValues ==
  {PyNone, Str(""), PyNaN, List(<<>>), Str("North"), Str("South")}

AuthorityValues ==
  {PyNone, List(<<>>), List(<<"Leeds">>), List(<<"Leeds", "York">>)}

MeasureValues == {PyNone, Str(""), Str("Spend"), Str("Cost")}

YearValues == {PyNone, Str(""), Str("2019-20"), Str("2020-21")}

PathValues ==
  {PyNone, Str("/"), Str("/local-authority"), Str("/regional-analysis"),
   Str("/unknown")}

(* ----------------------------- layouts -------------------------------- *)

\* The properties the components of a page layout are created with:
\* index_page holds the table with data=df.to_dict('records'), taken when
\* the module is loaded; the graphs of the other two pages are created
\* without a figure.  A component that is not on the page has no property.
LayoutTable(layout, d) == IF layout = "index_page" THEN <<d>> ELSE <<>>

\* The page whose layout holds the component of an input property.
PageOf(input) ==
  CASE input = "region-dropdown.value" -> "index_page"
    [] input \in {"local-authority-dropdown.value", "measure-dropdown.value"} ->
         "local_authority_page"
    [] input \in {"year-dropdown.value", "metric-dropdown.value"} ->
         "regional_analysis_page"

(* ----------------------------- state machine -------------------------- *)

Init ==
  /\ df \in Datasets
  /\ loaded = df
  /\ url_pathname = <<>>
  /\ page_content = <<>>
  /\ table_data = <<>>
  /\ comparison_chart = <<>>
  /\ regional_bar_chart = <<>>
  /\ last = <<>>

\* The callbacks Dash runs for a change of an input property.  A callback
\* whose output component is in no layout (local-authority-info) is run or
\* skipped: the file does not say which.
Dispatched(input, skip) ==
  SelectSeq(Triggered(input),
            LAMBDA cb : ~(skip /\ cb.output = "local-authority-info.children"))

\* A change of the value of a control of the page that is displayed.
Fire(input, props, skip) ==
  LET cbs == Dispatched(input, skip)
      calls == [i \in 1..Len(cbs) |-> Invoke(cbs[i], df, props)]
  IN /\ page_content = <<PageOf(input)>>
     /\ last' = calls
     /\ table_data' = Render(table_data, calls, "update_table")
     /\ comparison_chart' = Render(comparison_chart, calls,
                                   "update_comparison_chart")
     /\ regional_bar_chart' = Render(regional_bar_chart, calls,
                                     "update_regional_bar_chart")
     /\ df' = DfAfter(df, calls)
     /\ UNCHANGED <<loaded, url_pathname, page_content>>

ChangeRegion ==
  \E r \in RegionValues :
    Fire("region-dropdown.value",
         Props(PyNone, r, PyNone, PyNone, PyNone, PyNone), FALSE)

ChangeLocalAuthority ==
  \E a \in AuthorityValues, m \in MeasureValues, skip \in BOOLEAN :
    Fire("local-authority-dropdown.value",
         Props(PyNone, PyNone, a, m, PyNone, PyNone), skip)

ChangeMeasure ==
  \E a \in AuthorityValues, m \in MeasureValues :
    Fire("measure-dropdown.value",
         Props(PyNone, PyNone, a, m, PyNone, PyNone), FALSE)

ChangeYear ==
  \E y \in YearValues, m \in MeasureValues :
    Fire("year-dropdown.value",
         Props(PyNone, PyNone, PyNone, PyNone, y, m), FALSE)

ChangeMetric ==
  \E y \in YearValues, m \in MeasureValues :
    Fire("metric-dropdown.value",
         Props(PyNone, PyNone, PyNone, PyNone, y, m), FALSE)

\* A change of the URL: display_page returns a page layout, which becomes
\* the children of page-content with the properties the layout gives its
\* components.
ChangePath ==
  \E p \in PathValues :
    LET cbs == Triggered("url.pathname")
        calls == [i \in 1..Len(cbs) |->
                    Invoke(cbs[i], df,
                           Props(p, PyNone, PyNone, PyNone, PyNone, PyNone))]
    IN /\ url_pathname' = <<p>>
       /\ last' = calls
       /\ page_content' = Render(page_content, calls, "display_page")
       /\ table_data' = LayoutTable(page_content'[1], loaded)
       /\ comparison_chart' = <<>>
       /\ regional_bar_chart' = <<>>
       /\ df' = DfAfter(df, calls)
       /\ UNCHANGED loaded

Next ==
  \/ ChangeRegion
  \/ ChangeLocalAuthority
  \/ ChangeMeasure
  \/ ChangeYear
  \/ ChangeMetric
  \/ ChangePath

Spec == Init /\ [][Next]_vars

(* ----------------------------- properties ----------------------------- *)

Range(s) == {s[i] : i \in 1..Len(s)}

\* The invocations of fn in the last interaction that returned a value.
ReturnedCalls(fn) ==
  {c \in Range(last) : c.fn = fn /\ c.result = "return"}

\* The option values of region-dropdown: df['Region'].unique().
UniqueRegions(d) == {d[i].Region : i \in 1..Len(d)}

\* The control value that selects a cell.
AsValue(cell) == IF cell = NaN THEN PyNaN ELSE Str(cell)

\* Row i of d is returned by update_table for some region of d.
ShownBySomeRegion(d, i) ==
  \E R \in UniqueRegions(d) :
    LET c == update_table(d, AsValue(R))
    IN c.result = "return" /\ d[i] \in Range(c.out[1])

\* Every row update_table returned has the selected Region.
OnlySelectedRegion ==
  \A c \in ReturnedCalls("update_table") :
    \A r \in Range(c.out[1]) :
      c.args[1].t = "str" /\ r.Region = c.args[1].v[1]

\* C1, as stated: update_table(R) returns only rows whose Region is R, and
\* every row of the dataset, a row with a missing Region included, is
\* returned by the filter of some region of the dataset.
C1_UnionIsFullDataset ==
  /\ OnlySelectedRegion
  /\ \A i \in 1..Len(df) : ShownBySomeRegion(df, i)

\* C1, amended: update_table(R) returns only rows whose Region is R, and a
\* row of the dataset is returned by the filter of some region of the
\* dataset exactly when its Region is not missing.
C1_UnionIsRowsWithRegion ==
  /\ OnlySelectedRegion
  /\ \A i \in 1..Len(df) : (df[i].Region # NaN) <=> ShownBySomeRegion(df, i)

\* update_table has returned rows of a dataset that also holds a row with a
\* missing Region.
C1_Witness ==
  /\ \E c \in ReturnedCalls("update_table") : c.out[1] # <<>>
  /\ \E i \in 1..Len(df) : df[i].Region = NaN
  /\ \E i \in 1..Len(df) : df[i].Region # NaN

\* C2: every row update_comparison_chart charts has its Local authority
\* name among the selected authorities and the selected Measure, a numeric
\* Value (the number its cell of the dataset parses to) and a Financial
\* year that is not missing.
C2_ChartedRowsMatchSelection ==
  \A c \in ReturnedCalls("update_comparison_chart") :
    \A r \in Range(c.out[1].frame) :
      /\ \E j \in 1..Len(c.args[1].v) : c.args[1].v[j] = r.Local_authority_name
      /\ c.args[2].t = "str" /\ r.Measure = c.args[2].v[1]
      /\ Len(r.Value) = 1
      /\ r.Financial_year # NaN /\ r.Financial_year # ""
      /\ \E i \in 1..Len(df) :
           /\ df[i].Region = r.Region
           /\ df[i].Local_authority_name = r.Local_authority_name
           /\ df[i].Measure = r.Measure
           /\ df[i].Financial_year = r.Financial_year
           /\ to_numeric(df[i].Value) = r.Value

\* update_comparison_chart has charted a row and has dropped a selected row
\* whose Value is not numeric or whose Financial year is missing.
C2_Witness ==
  \E c \in ReturnedCalls("update_comparison_chart") :
    /\ c.out[1].frame # <<>>
    /\ \E i \in 1..Len(df) :
         /\ \E j \in 1..Len(c.args[1].v) :
              c.args[1].v[j] = df[i].Local_authority_name
         /\ df[i].Measure = c.args[2].v[1]
         /\ (to_numeric(df[i].Value) = <<>> \/ df[i].Financial_year = NaN)

\* The rows of d of region R, year Y and measure M whose Value parses.
MatchingNumeric(d, R, Y, M) ==
  {i \in 1..Len(d) :
     /\ d[i].Region = R
     /\ Y.t = "str" /\ d[i].Financial_year = Y.v[1]
     /\ M.t = "str" /\ d[i].Measure = M.v[1]
     /\ \A k \in 1..Len(d[i].Value) : IsDigit(d[i].Value[k])
     /\ d[i].Value # <<>>}

RECURSIVE SumValues(_, _)
SumValues(d, S) ==
  IF S = {} THEN 0
  ELSE LET i == CHOOSE i \in S : TRUE
       IN ParseInt(d[i].Value) + SumValues(d, S \ {i})

\* C3: the value update_regional_bar_chart(Y, M) plots for a region R is the
\* sum of the Values that parse, over the rows with Region R, Financial year
\* Y and Measure M, divided by the number of those rows (NaN where no Value
\* of the region parses).
C3_BarIsMeanOfNumericValues ==
  \A c \in ReturnedCalls("update_regional_bar_chart") :
    \A e \in Range(c.out[1].frame) :
      LET S == MatchingNumeric(df, e.Region, c.args[1], c.args[2])
      IN IF S = {} THEN e.Value = <<>>
         ELSE /\ Len(e.Value) = 2
              /\ e.Value[2] > 0
              /\ e.Value[1] * Cardinality(S) = SumValues(df, S) * e.Value[2]

\* update_regional_bar_chart has plotted a mean for a region that has a row
\* whose Value parses and another matching row.
C3_Witness ==
  \E c \in ReturnedCalls("update_regional_bar_chart") :
    \E e \in Range(c.out[1].frame) :
      /\ MatchingNumeric(df, e.Region, c.args[1], c.args[2]) # {}
      /\ Cardinality({i \in 1..Len(df) :
                        /\ df[i].Region = e.Region
                        /\ df[i].Financial_year = c.args[1].v[1]
                        /\ df[i].Measure = c.args[2].v[1]}) > 1

\* The layout the router is to render for a pathname.
ExpectedLayout(p) ==
  CASE p = Str("/local-authority") -> "local_authority_page"
    [] p = Str("/regional-analysis") -> "regional_analysis_page"
    [] OTHER -> "index_page"

IsPathChange(calls) == Len(calls) = 1 /\ calls[1].fn = "display_page"

\* C4: at every moment the rendered layout is the one of the most recent
\* pathname ('/local-authority' the comparison layout, '/regional-analysis'
\* the analysis layout, anything else the table layout); display_page always
\* returns, and a path change leaves the table df alone and renders the
\* layout with the properties it was defined with.
C4_LayoutFollowsPathname ==
  /\ [](page_content = IF url_pathname = <<>> THEN <<>>
                       ELSE <<ExpectedLayout(url_pathname[1])>>)
  /\ [][IF IsPathChange(last')
        THEN /\ last'[1].result = "return"
             /\ last'[1].args = url_pathname'
             /\ df' = df
             /\ table_data' = LayoutTable(page_content'[1], loaded)
             /\ comparison_chart' = <<>>
             /\ regional_bar_chart' = <<>>
        ELSE page_content' = page_content /\ url_pathname' = url_pathname]_vars

\* The table layout is shown for an unrecognized pathname, and stays while
\* the region is changed.
C4_Witness ==
  /\ url_pathname = <<Str("/unknown")>>
  /\ page_content = <<"index_page">>
  /\ last # <<>> /\ last[1].fn = "update_table"

ViewCallbacks ==
  {"update_table", "update_comparison_chart", "update_regional_bar_chart"}

ChartCallbacks == {"update_comparison_chart", "update_regional_bar_chart"}

\* C5, as stated: in every view, a call with a missing selection of any
\* form (None, empty list, empty string) in any control raises PreventUpdate.
C5_EveryMissingFormSuppresses ==
  \A c \in Range(last) :
    (c.fn \in ViewCallbacks /\ \E j \in 1..Len(c.args) : Falsy(c.args[j]))
      => c.result = "PreventUpdate"

\* The selection of call c is missing: None for update_table; None, the
\* empty list or the empty string for a control of the chart callbacks.
MissingSelection(c) ==
  \/ c.fn = "update_table" /\ c.args[1].t = "None"
  \/ c.fn \in ChartCallbacks /\ \E j \in 1..Len(c.args) : Falsy(c.args[j])

\* C5, amended: a call of update_table with None, or of a chart callback
\* with None, an empty list or an empty string in a control, raises
\* PreventUpdate and nothing else, and every rendered output stays as it was.
C5_MissingSelectionSuppresses ==
  [][\A k \in 1..Len(last') :
       MissingSelection(last'[k]) =>
         /\ last'[k].result = "PreventUpdate"
         /\ table_data' = table_data
         /\ comparison_chart' = comparison_chart
         /\ regional_bar_chart' = regional_bar_chart
         /\ page_content' = page_content]_vars

\* A chart callback was called with an empty selection while a figure was
\* shown.
C5_Witness ==
  \E c \in Range(last) :
    /\ c.fn = "update_comparison_chart"
    /\ Falsy(c.args[1])
    /\ c.args[1].t = "list"
    /\ comparison_chart # <<>>

\* C6: the table df is the table as it was loaded.
C6_DatasetNeverMutated == df = loaded

\* update_regional_bar_chart has coerced a Value that does not parse.
C6_Witness ==
  \E c \in ReturnedCalls("update_regional_bar_chart") :
    \E i \in 1..Len(df) :
      /\ CellEq(df[i].Financial_year, c.args[1])
      /\ CellEq(df[i].Measure, c.args[2])
      /\ df[i].Value # <<>>
      /\ to_numeric(df[i].Value) = <<>>

Recompute(c, d) ==
  CASE c.fn = "update_table" -> update_table(d, c.args[1])
    [] c.fn = "update_local_authority_info" ->
         update_local_authority_info(d, c.args[1])
    [] c.fn = "update_comparison_chart" ->
         update_comparison_chart(d, c.args[1], c.args[2])
    [] c.fn = "display_page" -> display_page(c.args[1])
    [] c.fn = "update_regional_bar_chart" ->
         update_regional_bar_chart(d, c.args[1], c.args[2])

Count(s, x) == Cardinality({k \in 1..Len(s) : s[k] = x})

\* Rows i and j of d agree on Region, Local authority name, Measure and
\* Financial year; the Value of i is 100 and the Value of j is "bad".
MalformedTwin(d, i, j) ==
  /\ d[i].Region = d[j].Region
  /\ d[i].Local_authority_name = d[j].Local_authority_name
  /\ d[i].Measure = d[j].Measure
  /\ d[i].Financial_year = d[j].Financial_year
  /\ d[i].Financial_year # NaN
  /\ d[i].Value = <<"1", "0", "0">>
  /\ d[j].Value = <<"b", "a", "d">>

\* C9: if the dataset holds a row with Value 100 and a row with Value "bad"
\* that agree on the other columns, the comparison chart of that authority
\* and measure is drawn without an error, holds the point of Value 100 once
\* for each such row of the dataset, and holds no point without a number;
\* when these two are the only rows, the chart holds exactly that one point.
C9_MalformedRowDropped ==
  \A c \in Range(last) :
    \A i, j \in 1..Len(df) :
      ( /\ c.fn = "update_comparison_chart"
        /\ MalformedTwin(df, i, j)
        /\ c.args[1].t = "list"
        /\ \E k \in 1..Len(c.args[1].v) :
             c.args[1].v[k] = df[i].Local_authority_name
        /\ c.args[2] = Str(df[i].Measure) )
      => /\ c.result = "return"
         /\ LET frame == c.out[1].frame
                point == [df[i] EXCEPT !.Value = <<100>>]
            IN /\ Count(frame, point) = Count(df, df[i])
               /\ \A r \in Range(frame) : Len(r.Value) = 1
               /\ (Len(df) = 2 => frame = <<point>>)

\* The comparison chart was drawn from a dataset of exactly the two rows.
C9_Witness ==
  /\ Len(df) = 2
  /\ \E i, j \in 1..Len(df) : MalformedTwin(df, i, j)
  /\ \E c \in ReturnedCalls("update_comparison_chart") :
       Len(c.out[1].frame) = 1

\* The regions that have a row of year Y and measure M in d.
MatchingRegions(d, Y, M) ==
  {d[i].Region : i \in {k \in 1..Len(d) :
                          /\ d[k].Region # NaN
                          /\ Y.t = "str" /\ d[k].Financial_year = Y.v[1]
                          /\ M.t = "str" /\ d[k].Measure = M.v[1]}}

\* C10, as stated: the table passed to the bar chart has exactly one entry
\* for each distinct Region of the dataset, each with a numeric mean.
C10_OneBarPerRegionOfDataset ==
  \A c \in ReturnedCalls("update_regional_bar_chart") :
    LET frame == c.out[1].frame
        regions == UniqueRegions(df) \ {NaN}
    IN /\ {frame[j].Region : j \in 1..Len(frame)} = regions
       /\ Len(frame) = Cardinality(regions)
       /\ \A j \in 1..Len(frame) : frame[j].Value # <<>>

\* C10, amended: the table passed to the bar chart has exactly one entry for
\* each distinct non-missing Region among the rows of year Y and measure M,
\* and no other; the mean of an entry is a number when a Value of a matching
\* row of the region parses, and NaN otherwise.
C10_OneBarPerMatchingRegion ==
  \A c \in ReturnedCalls("update_regional_bar_chart") :
    LET frame == c.out[1].frame
        regions == MatchingRegions(df, c.args[1], c.args[2])
    IN /\ {frame[j].Region : j \in 1..Len(frame)} = regions
       /\ Len(frame) = Cardinality(regions)
       /\ \A j \in 1..Len(frame) :
            (frame[j].Value # <<>>) <=>
              (MatchingNumeric(df, frame[j].Region, c.args[1], c.args[2]) # {})

\* The bar chart was drawn for a year and measure that a region of the
\* dataset has no row of.
C10_Witness ==
  \E c \in ReturnedCalls("update_regional_bar_chart") :
    /\ c.out[1].frame # <<>>
    /\ \E R \in UniqueRegions(df) \ {NaN} :
         R \notin MatchingRegions(df, c.args[1], c.args[2])

====
